---- MODULE Spec2Model ----
(***************************************************************************)
(* Model of the paraphraser repository.                                    *)
(*                                                                         *)
(* Part I  : the Cloudflare Pages function onRequestPost, in its five      *)
(*           variants (functions/api/paraphrase.js holds three of them,    *)
(*           the two unnamed files one each).  One behaviour is one        *)
(*           invocation of the handler: the request arrives, the handler   *)
(*           runs until its next await on fetch; the fetch settles and     *)
(*           callGemini runs until its await on the body; the body arrives *)
(*           and the handler runs until the next fetch or the return.      *)
(*           paraphrase.js declares onRequestPost three times and does not *)
(*           load as one module; its three handlers are modelled as the    *)
(*           modules that lines 1-252, 254-362 and 363-471 make up.        *)
(* Part II : the Express server of server.js: validateInput, the POST      *)
(*           /paraphrase route and GET /health.  The rate limiter mounted  *)
(*           before the route is the library express-rate-limit, which is  *)
(*           no part of the source: of a request it is only known that the *)
(*           limiter either passes it on to the route or answers it.       *)
(*                                                                         *)
(* JavaScript strings that the code inspects (request text, model replies) *)
(* are sequences of one-character strings, so that length, trim, split     *)
(* and parseInt are computed as the code computes them.                    *)
(***************************************************************************)
EXTENDS Integers, Sequences, FiniteSets, TLC

VARIABLES
    variant,    \* which onRequestPost handles the request
    env,        \* the env binding: [GEMINI_API_KEY |-> string]
    pc,         \* "start" | "await" | "body" | "done": position of the handler
    request,    \* the parsed request body of this invocation
    tone,       \* the handler's local `tone` (after defaulting)
    locals,     \* the handler's other locals
    calls,      \* prompts handed to fetch so far, in order
    inflight,   \* indices of calls whose fetch has not settled
    outputs,    \* what callGemini returned for each call it returned from
    replies,    \* what the external API answered to each settled call
    responses,  \* Responses the invocation returned
    pending,    \* server.js: route invocations awaiting model.generateContent
    last,       \* server.js: the most recently answered request
    sent        \* server.js: per client, requests sent so far

hvars == <<variant, env, pc, request, tone, locals, calls, inflight, outputs,
           replies, responses>>
svars == <<pending, last, sent>>
vars  == <<hvars, svars>>

----------------------------------------------------------------------------
(* JavaScript string helpers                                               *)
(* A helper that inspects its argument many times takes it through a local *)
(* function, so that the argument is evaluated once.                       *)

Min(S) == CHOOSE x \in S : \A y \in S : x <= y
Max(S) == CHOOSE x \in S : \A y \in S : x >= y

Rep(c, n) == [i \in 1..n |-> c]

\* WhiteSpace and LineTerminator of ECMAScript, which trim, \s and parseInt
\* strip.  A character that a TLA+ string cannot hold stands in the
\* sequences as the one element that names its code point.
OtherWhiteSpace ==
    { "U+000B", "U+00A0", "U+1680", "U+2000", "U+2001", "U+2002", "U+2003",
      "U+2004", "U+2005", "U+2006", "U+2007", "U+2008", "U+2009", "U+200A",
      "U+2028", "U+2029", "U+202F", "U+205F", "U+3000", "U+FEFF" }
WhiteSpace == {" ", "\n", "\t", "\r", "\f"} \cup OtherWhiteSpace
Digits == <<"0", "1", "2", "3", "4", "5", "6", "7", "8", "9">>

\* String.prototype.trim
Trim(s) ==
    LET trim[t \in Seq(STRING)] ==
            LET keep == {i \in 1..Len(t) : t[i] \notin WhiteSpace}
            IN  IF keep = {} THEN <<>> ELSE SubSeq(t, Min(keep), Max(keep))
    IN  trim[s]

\* index of the first occurrence of sep in s, 0 if none
IndexOf(s, sep) ==
    LET at == {i \in 1..(Len(s) - Len(sep) + 1) : SubSeq(s, i, i + Len(sep) - 1) = sep}
    IN  IF at = {} THEN 0 ELSE Min(at)

\* String.prototype.split with a non-empty separator
Split(s, sep) ==
    LET parts[t \in Seq(STRING)] ==
            LET i == IndexOf(t, sep)
            IN  IF i = 0 THEN <<t>>
                ELSE <<SubSeq(t, 1, i - 1)>> \o parts[SubSeq(t, i + Len(sep), Len(t))]
    IN  parts[s]

\* Array.prototype.map(v => v.trim())
MapTrim(a) ==
    LET map[b \in Seq(Seq(STRING))] == [i \in 1..Len(b) |-> Trim(b[i])]
    IN  map[a]

\* Array.prototype.filter(Boolean) on an array of strings
NonEmpty(x) == x # <<>>
FilterNonEmpty(a) == SelectSeq(a, NonEmpty)

StartsWith(s, p) == Len(s) >= Len(p) /\ SubSeq(s, 1, Len(p)) = p

\* s.replace(/^<p>\s*/, '') for a string s that starts with p
StripPrefixAndSpace(s, p) ==
    LET rest == SubSeq(s, Len(p) + 1, Len(s))
        keep == {i \in 1..Len(rest) : rest[i] \notin WhiteSpace}
    IN  IF keep = {} THEN <<>> ELSE SubSeq(rest, Min(keep), Len(rest))

DigitValue(c) == (CHOOSE i \in 1..10 : Digits[i] = c) - 1
IsDigit(c) == \E i \in 1..10 : Digits[i] = c

RECURSIVE DecimalValue(_, _)
DecimalValue(s, acc) ==
    IF s = <<>> \/ ~IsDigit(Head(s)) THEN acc
    ELSE DecimalValue(Tail(s), acc * 10 + DigitValue(Head(s)))

HexLower == <<"a", "b", "c", "d", "e", "f">>
HexUpper == <<"A", "B", "C", "D", "E", "F">>
IsHexDigit(c) == IsDigit(c) \/ \E i \in 1..6 : c \in {HexLower[i], HexUpper[i]}
HexDigitValue(c) ==
    IF IsDigit(c) THEN DigitValue(c)
    ELSE 9 + (CHOOSE i \in 1..6 : c \in {HexLower[i], HexUpper[i]})

RECURSIVE HexValue(_, _)
HexValue(s, acc) ==
    IF s = <<>> \/ ~IsHexDigit(Head(s)) THEN acc
    ELSE HexValue(Tail(s), acc * 16 + HexDigitValue(Head(s)))

\* parseInt(s) without a radix: leading white space, an optional sign, then
\* after a prefix 0x or 0X the longest run of hexadecimal digits, otherwise
\* the longest run of decimal digits; NaN when that run is empty
ParseInt(s) ==
    LET int[x \in Seq(STRING)] ==
            LET keep == {i \in 1..Len(x) : x[i] \notin WhiteSpace}
                t    == IF keep = {} THEN <<>> ELSE SubSeq(x, Min(keep), Len(x))
                neg  == t # <<>> /\ Head(t) = "-"
                u    == IF t # <<>> /\ Head(t) \in {"-", "+"} THEN Tail(t) ELSE t
                hex  == Len(u) >= 2 /\ u[1] = "0" /\ u[2] \in {"x", "X"}
                d    == IF hex THEN SubSeq(u, 3, Len(u)) ELSE u
                ok   == d # <<>> /\ (IF hex THEN IsHexDigit(Head(d)) ELSE IsDigit(Head(d)))
                mag  == IF hex THEN HexValue(d, 0) ELSE DecimalValue(d, 0)
            IN  IF ~ok THEN [nan |-> TRUE, val |-> 0]
                ELSE [nan |-> FALSE, val |-> IF neg THEN 0 - mag ELSE mag]
    IN  int[s]

----------------------------------------------------------------------------
(* Part I: onRequestPost -- values, validation, responses                  *)

Variants == {"part_000", "part_001", "paraphrase_1", "paraphrase_2", "paraphrase_3"}

\* the handlers whose callGemini is the one "WITH FULL ERROR HANDLING"
FullErrorHandling(v) == v \in {"part_000", "part_001", "paraphrase_1"}

MaxTextLen == 2000

AllowedTones == {"standard", "simple", "professional", "academic"}

\* JavaScript values: the fields of the request body, the text of a reply
\* of the external API, what callGemini returns.  An array is kept as the
\* string String(array) makes of it (its elements joined by ",").
Undefined == [type |-> "undefined", num |-> 0, str |-> <<>>, name |-> ""]
Number(n) == [type |-> "number", num |-> n, str |-> <<>>, name |-> ""]
Str(s)    == [type |-> "string", num |-> 0, str |-> s, name |-> ""]
Name(t)   == [type |-> "string", num |-> 0, str |-> <<>>, name |-> t]
Array(s)  == [type |-> "array", num |-> 0, str |-> s, name |-> ""]

\* ToBoolean of a text value and of a tone value
TruthyText(x) == (x.type = "string" /\ x.str # <<>>) \/ (x.type = "number" /\ x.num # 0)
TruthyTone(x) == (x.type = "string" /\ x.name # "") \/ (x.type = "number" /\ x.num # 0)

\* ToBoolean of the text of a reply: an array is truthy, even when empty
Truthy(x) == TruthyText(x) \/ x.type = "array"

\* String(n) of a number n >= 0
RECURSIVE NumberToString(_)
NumberToString(n) ==
    IF n < 10 THEN <<Digits[n + 1]>>
    ELSE Append(NumberToString(n \div 10), Digits[(n % 10) + 1])

\* `${x}` in a template literal
ToStr(x) ==
    CASE x.type = "number" -> NumberToString(x.num)
      [] x.type = "undefined" -> <<"u", "n", "d", "e", "f", "i", "n", "e", "d">>
      [] OTHER -> x.str

\* const tone = body.tone || "standard"
DefaultTone(t) == IF TruthyTone(t) THEN t ELSE Name("standard")

\* const { text, tone } = await request.json()   (no default)
NoDefaultTone(t) == t

LocalTone(v, t) == IF v = "paraphrase_2" THEN NoDefaultTone(t) ELSE DefaultTone(t)

\* !text || typeof text !== "string" || text.length > 2000
InvalidText(text) ==
    ~TruthyText(text) \/ text.type # "string" \/ Len(text.str) > MaxTextLen

\* !text || typeof text !== 'string' || text.length === 0 || text.length > 2000
InvalidText_2(text) ==
    ~TruthyText(text) \/ text.type # "string" \/ Len(text.str) = 0
        \/ Len(text.str) > MaxTextLen

TextRejected(v, text) ==
    IF v = "paraphrase_2" THEN InvalidText_2(text) ELSE InvalidText(text)

\* allowedTones.includes(tone)
ToneAllowed(t) == t.type = "string" /\ t.name \in AllowedTones

\* !env.GEMINI_API_KEY
KeyMissing(e) == e.GEMINI_API_KEY = ""

JsonHeaders ==
    [ContentType |-> "application/json", AccessControlAllowOrigin |-> "*"]

\* function json(data, status = 200)
json(data, status) == [status |-> status, body |-> data, headers |-> JsonHeaders]

InvalidTextResponse(v) ==
    IF v = "paraphrase_2"
    THEN json([error |-> "Invalid input: text must be a non-empty string under 2000 characters"], 400)
    ELSE json([error |-> "Invalid input text"], 400)

InvalidToneResponse(v) ==
    IF v = "paraphrase_2"
    THEN json([error |-> "Invalid tone: must be one of standard, simple, professional, academic"], 400)
    ELSE json([error |-> "Invalid tone"], 400)

KeyMissingResponse(v) ==
    CASE v = "paraphrase_2" -> json([error |-> "Server configuration error"], 500)
      [] v = "paraphrase_3" -> json([error |-> "Missing Gemini API key"], 500)
      [] OTHER -> json([error |-> "GEMINI_API_KEY is missing in environment variables"], 500)

\* a catch block that names the field message instead of error
CatchResponse_NoErrorField(v, message) ==
    json([message |-> "Paraphrasing failed", details |-> message], 500)

\* the catch block of the handler
CatchResponse(v, message) ==
    IF FullErrorHandling(v)
    THEN json([error |-> "Paraphrasing failed", details |-> message], 500)
    ELSE json([error |-> "Internal server error"], 500)

\* Validate without the API-key check
Validate_SkipsKey(v, text, t, e) ==
    IF TextRejected(v, text) THEN "text"
    ELSE IF ~ToneAllowed(t) THEN "tone"
    ELSE ""

\* Validate with the API-key check first
Validate_KeyFirst(v, text, t, e) ==
    IF KeyMissing(e) THEN "key"
    ELSE IF TextRejected(v, text) THEN "text"
    ELSE IF ~ToneAllowed(t) THEN "tone"
    ELSE ""

\* the first check that fails, in the order of the code; "" when all pass
Validate(v, text, t, e) ==
    IF TextRejected(v, text) THEN "text"
    ELSE IF ~ToneAllowed(t) THEN "tone"
    ELSE IF KeyMissing(e) THEN "key"
    ELSE ""

----------------------------------------------------------------------------
(* Part I: callGemini                                                      *)

\* res.ok
ResOk(status) == status >= 200 /\ status <= 299

\* what a call of callGemini ends in: a throw with a message, or a return
\* with a JavaScript value
Throw(message) == [ok |-> FALSE, out |-> Undefined, msg |-> message]
Return(output) == [ok |-> TRUE, out |-> output, msg |-> ""]

\* A reply of the external API to one fetch:
\*   neterr  : fetch rejected
\*   status  : HTTP status
\*   json    : the body parses as JSON
\*   isNull  : the JSON is the value null
\*   hasText : the JSON has candidates[0].content.parts[0].text
\*   text    : that text, a JavaScript value: a string in every reply the
\*             API documents, but the code takes whatever the JSON holds

\* callGemini of part_000, part_001 and the first handler of paraphrase.js
callGemini(r) ==
    IF r.neterr THEN Throw("Failed to reach Gemini API (network error)")
    ELSE IF ~r.json THEN Throw("Gemini returned invalid JSON")
    ELSE IF ~ResOk(r.status) THEN
        IF r.status = 401 \/ r.status = 403
        THEN Throw("Gemini API key is invalid or unauthorized")
        ELSE IF r.status = 429 THEN Throw("Gemini rate limit exceeded")
        ELSE Throw("Gemini API error (" \o ToString(r.status) \o ")")
    ELSE IF r.hasText /\ r.text.type # "string"
    THEN Throw("data?.candidates?.[0]?.content?.parts?.[0]?.text?.trim is not a function")
    ELSE LET output == IF r.hasText THEN Trim(r.text.str) ELSE <<>>
         IN  IF output = <<>> THEN Throw("Gemini returned empty content")
             ELSE Return(Str(output))

\* callGemini of the second handler of paraphrase.js
callGemini_2(r) ==
    IF r.neterr THEN Throw("fetch failed")
    ELSE IF ~ResOk(r.status) THEN Throw("Gemini API error: " \o ToString(r.status))
    ELSE IF ~r.json THEN Throw("Unexpected token in JSON")
    ELSE IF r.isNull THEN Throw("Cannot read properties of null")
    ELSE IF ~r.hasText THEN Throw("Cannot read properties of undefined")
    ELSE IF r.text.type # "string"
    THEN Throw("data.candidates[0].content.parts[0].text.trim is not a function")
    ELSE Return(Str(Trim(r.text.str)))

\* callGemini of the third handler of paraphrase.js
callGemini_3(r) ==
    IF r.neterr THEN Throw("fetch failed")
    ELSE IF ~r.json THEN Throw("Unexpected token in JSON")
    ELSE IF ~ResOk(r.status) THEN Throw("JSON.stringify(data)")
    ELSE IF r.isNull THEN Throw("Cannot read properties of null")
    ELSE Return(IF r.hasText /\ Truthy(r.text) THEN r.text ELSE Str(<<>>))

\* callGemini throws in the continuation of `await fetch`, before it awaits
\* the body: a rejected fetch in every handler, and a status that is not OK
\* in the second handler of paraphrase.js
ThrowsBeforeBody(v, r) == r.neterr \/ (v = "paraphrase_2" /\ ~ResOk(r.status))

CallGeminiOf(v, r) ==
    CASE v = "paraphrase_2" -> callGemini_2(r)
      [] v = "paraphrase_3" -> callGemini_3(r)
      [] OTHER -> callGemini(r)

----------------------------------------------------------------------------
(* Part I: the pipelines                                                   *)

\* One entry per fetch of a handler, in program order:
\*   label  : the stage name handed to callGemini ("" when the handler gives none)
\*   reads  : what the prompt template interpolates as text
\*   writes : the local the result is assigned to
\*   tone   : whether the template interpolates ${tone}
St(l, r, w, t) == [label |-> l, reads |-> r, writes |-> w, tone |-> t]

Stages_part_000 ==
    << St("stage-1", "text", "variationsRaw", FALSE),
       St("stage-2", "variations", "selectionRaw", FALSE),
       St("stage-3", "selected", "selected", FALSE),
       St("stage-4", "selected", "final", TRUE) >>

\* the five-stage pipeline with stage 5 reading `selected` again
Stages_paraphrase_1_Stale ==
    << St("stage-1", "text", "variationsRaw", FALSE),
       St("stage-2", "variations", "selectionRaw", FALSE),
       St("stage-3", "selected", "selected", FALSE),
       St("stage-4", "selected", "final", TRUE),
       St("stage-5", "selected", "final", TRUE) >>

Stages_paraphrase_1 ==
    << St("stage-1", "text", "variationsRaw", FALSE),
       St("stage-2", "variations", "selectionRaw", FALSE),
       St("stage-3", "selected", "selected", FALSE),
       St("stage-4", "selected", "final", TRUE),
       St("stage-5", "final", "final", TRUE) >>

\* the six-stage pipeline with stage 5 left out
Stages_part_001_Skip ==
    << St("stage-1", "text", "variationsRaw", FALSE),
       St("stage-2", "variations", "selectionRaw", FALSE),
       St("stage-3", "selected", "selected", FALSE),
       St("stage-4", "selected", "final", TRUE),
       St("stage-6", "final", "final", TRUE) >>

Stages_part_001 ==
    << St("stage-1", "text", "variationsRaw", FALSE),
       St("stage-2", "variations", "selectionRaw", FALSE),
       St("stage-3", "selected", "selected", FALSE),
       St("stage-4", "selected", "final", TRUE),
       St("stage-5", "final", "final", TRUE),
       St("stage-6", "final", "final", TRUE) >>

Stages_paraphrase_2 ==
    << St("", "text", "variationsRaw", FALSE),
       St("", "text+variations", "selectionRaw", FALSE),
       St("", "selected", "stage2Output", FALSE),
       St("", "stage2Output", "final", TRUE) >>

Stages_paraphrase_3 ==
    << St("", "text", "variationsRaw", FALSE),
       St("", "variations", "selectionRaw", FALSE),
       St("", "selected", "selected", FALSE),
       St("", "selected", "final", TRUE) >>

Pipeline(v) ==
    CASE v = "part_000" -> Stages_part_000
      [] v = "part_001" -> Stages_part_001
      [] v = "paraphrase_1" -> Stages_paraphrase_1
      [] v = "paraphrase_2" -> Stages_paraphrase_2
      [] v = "paraphrase_3" -> Stages_paraphrase_3

\* variations is a list of strings; selected, final and stage2Output hold
\* what callGemini returned
NoLocals ==
    [variations |-> <<>>, selected |-> Undefined, final |-> Undefined,
     stage2Output |-> Undefined]

Bars == <<"|", "|", "|">>

\* the same without .filter(Boolean): empty parts are kept
ParseVariations_KeepsEmpty(raw) == MapTrim(Split(raw, Bars))

\* variationsRaw.split("|||").map(v => v.trim()).filter(Boolean)
ParseVariations(raw) == FilterNonEmpty(MapTrim(Split(raw, Bars)))

\* lines.find(l => l.startsWith(p))?.replace(/^p\s*/, '') || ''
FindNumbered(lines, p) ==
    LET at == {i \in 1..Len(lines) : StartsWith(lines[i], p)}
    IN  IF at = {} THEN <<>> ELSE StripPrefixAndSpace(lines[Min(at)], p)

\* var1, var2, var3 of the second handler of paraphrase.js
ParseNumbered(raw) ==
    LET numbered[lines \in Seq(Seq(STRING))] ==
            << FindNumbered(lines, <<"1", ".">>),
               FindNumbered(lines, <<"2", ".">>),
               FindNumbered(lines, <<"3", ".">>) >>
    IN  numbered[FilterNonEmpty(MapTrim(Split(raw, <<"\n">>)))]

\* a selection that falls back to the last variation instead of the first
SelectIndex_FallsToLast(raw) ==
    LET choice == Trim(raw)
    IN  IF choice \in {<<"1">>, <<"2">>, <<"3">>} THEN DigitValue(choice[1]) - 1 ELSE 2

\* ["1","2","3"].includes(choice) ? Number(choice) - 1 : 0   (0-based)
SelectIndex(raw) ==
    LET choice == Trim(raw)
    IN  IF choice \in {<<"1">>, <<"2">>, <<"3">>} THEN DigitValue(choice[1]) - 1 ELSE 0

Step(thrown, message, L) == [throw |-> thrown, msg |-> message, locals |-> L]

\* what the handler does with the value callGemini returned for its k-th
\* fetch, up to the next fetch or return
AfterVariations(v, out, L) ==
    IF out.type # "string" THEN Step(TRUE, "variationsRaw.split is not a function", L)
    ELSE IF v = "paraphrase_2" THEN
        LET vs == ParseNumbered(out.str)
        IN  IF vs[1] = <<>> \/ vs[2] = <<>> \/ vs[3] = <<>>
            THEN Step(TRUE, "Failed to generate variations", L)
            ELSE Step(FALSE, "", [L EXCEPT !.variations = vs])
    ELSE
        LET vs == ParseVariations(out.str)
        IN  IF Len(vs) < 3
            THEN Step(TRUE, IF v = "paraphrase_3" THEN "Variation generation failed"
                            ELSE "Gemini failed to generate 3 variations", L)
            ELSE Step(FALSE, "", [L EXCEPT !.variations = vs])

AfterSelection(v, out, L) ==
    IF out.type # "string" THEN Step(TRUE, "selectionRaw.trim is not a function", L)
    ELSE IF v = "paraphrase_2" THEN
        LET n == ParseInt(Trim(out.str))
        IN  IF ~n.nan /\ n.val \in {1, 2, 3}
            THEN Step(FALSE, "", [L EXCEPT !.selected = Str(L.variations[n.val])])
            ELSE Step(TRUE, "Invalid selection", L)
    ELSE Step(FALSE, "", [L EXCEPT !.selected =
                              Str(L.variations[SelectIndex(out.str) + 1])])

After(v, k, out, L) ==
    LET w == Pipeline(v)[k].writes
    IN  CASE w = "variationsRaw" -> AfterVariations(v, out, L)
          [] w = "selectionRaw" -> AfterSelection(v, out, L)
          [] OTHER -> Step(FALSE, "", [L EXCEPT ![w] = out])

\* the prompt of the k-th fetch: the template and what it interpolates
Prompt(v, k, text, t, L) ==
    LET st == Pipeline(v)[k]
    IN  [stage |-> k,
         label |-> st.label,
         parts |-> CASE st.reads = "text" -> <<text>>
                     [] st.reads = "variations" -> SubSeq(L.variations, 1, 3)
                     [] st.reads = "text+variations" -> <<text>> \o SubSeq(L.variations, 1, 3)
                     [] OTHER -> <<ToStr(L[st.reads])>>,
         tone  |-> IF st.tone THEN <<t>> ELSE <<>>]

\* return json({ result: final })
ResultResponse(L) == json([result |-> L.final], 200)

----------------------------------------------------------------------------
(* Part I: inputs of the model                                             *)

ShortText == <<"h", "i">>

\* request.json(): a body that is no JSON, the JSON null, or an object; the
\* texts at the length limit come without a tone, with an allowed one and
\* with one that is not allowed
NoRequest == [kind |-> "none", text |-> Undefined, tone |-> Undefined]
Bodies ==
    { [kind |-> "badjson", text |-> Undefined, tone |-> Undefined],
      [kind |-> "null", text |-> Undefined, tone |-> Undefined] }
    \cup
    [ kind : {"object"},
      text : { Undefined, Number(5), Str(<<>>), Str(ShortText) },
      tone : { Undefined, Name(""), Name("standard"), Name("academic"),
               Name("casual") } ]
    \cup
    [ kind : {"object"},
      text : { Str(Rep("a", MaxTextLen)), Str(Rep("a", MaxTextLen + 1)) },
      tone : { Undefined, Name("academic"), Name("casual") } ]

Envs == { [GEMINI_API_KEY |-> ""], [GEMINI_API_KEY |-> "key"] }

\* texts the model may answer with
VariationTexts ==
    { <<"a">> \o Bars \o <<"b">> \o Bars \o <<"c">>,
      <<" ", "a", " ">> \o Bars \o <<" ", "b">> \o Bars \o <<"c", " ">> \o Bars \o <<"d">>,
      <<"a">> \o Bars \o <<"U+00A0">> \o Bars \o <<"b">> \o Bars \o <<"c">>,
      <<"a">> \o Bars \o <<"b">>,
      <<"a">> \o Bars \o <<" ">> \o Bars \o <<"b">>,
      <<"1", ".", " ", "a", "\r", "\n", "2", ".", "b", "\r", "\n", "3", ".", " ", " ", "c">>,
      <<"1", ".", " ", "a", "\n", "2", ".", " ", "\n", "3", ".", "c">> }
SelectionTexts ==
    { <<"1">>, <<"\r", "\n", "2", "\r">>, <<" ", "3", "\n">>, <<"2", ".">>,
      <<"0", "x", "2">>, <<"4">>, <<"b">> }
RefineTexts == { <<"x">>, <<" ", "y", " ">> }
BlankTexts == { <<>>, <<" ", " ">> }

ErrorStatuses == {401, 403, 429, 500}

\* texts of a reply that are not strings
NonStringTexts == { Number(5), Number(0), Array(<<>>) }

Reply(n, s, j, h, t) ==
    [neterr |-> n, status |-> s, json |-> j, isNull |-> FALSE, hasText |-> h,
     text |-> IF h THEN Str(t) ELSE Undefined]

\* a reply with status 200 whose text is the value x
NonStringReply(x) == [Reply(FALSE, 200, TRUE, TRUE, <<>>) EXCEPT !.text = x]

\* a reply with status s whose body is the JSON value null
NullReply(s) == [Reply(FALSE, s, TRUE, FALSE, <<>>) EXCEPT !.isNull = TRUE]

\* what the external API may answer to the k-th fetch of an invocation
Replies(k) ==
    { Reply(TRUE, 0, FALSE, FALSE, <<>>) }
    \cup { Reply(FALSE, s, j, FALSE, <<>>) : s \in ErrorStatuses, j \in BOOLEAN }
    \cup { Reply(FALSE, 200, FALSE, FALSE, <<>>), Reply(FALSE, 200, TRUE, FALSE, <<>>),
           NullReply(200) }
    \cup { NonStringReply(x) : x \in NonStringTexts }
    \cup { Reply(FALSE, 200, TRUE, TRUE, t) :
             t \in BlankTexts \cup
                   (IF k = 1 THEN VariationTexts \cup SelectionTexts
                    ELSE IF k = 2 THEN SelectionTexts \cup RefineTexts
                    ELSE RefineTexts) }

AllReplies == Replies(1) \cup Replies(2) \cup Replies(3)

----------------------------------------------------------------------------
(* Part I: the actions                                                     *)

Finish(resp) ==
    /\ responses' = Append(responses, resp)
    /\ pc' = "done"
    /\ inflight' = {}

\* the request arrives: request.json(), the validation, the first fetch
Start(body) ==
    /\ pc = "start"
    /\ request' = body
    /\ UNCHANGED <<variant, env, locals, outputs, replies, svars>>
    /\ IF body.kind = "badjson"
       THEN Finish(CatchResponse(variant, "Unexpected token in JSON"))
            /\ UNCHANGED <<tone, calls>>
       ELSE IF body.kind = "null"
       THEN Finish(CatchResponse(variant, "Cannot read properties of null"))
            /\ UNCHANGED <<tone, calls>>
       ELSE LET t   == LocalTone(variant, body.tone)
                chk == Validate(variant, body.text, t, env)
            IN  /\ tone' = t.name
                /\ CASE chk = "text" -> Finish(InvalidTextResponse(variant)) /\ UNCHANGED calls
                     [] chk = "tone" -> Finish(InvalidToneResponse(variant)) /\ UNCHANGED calls
                     [] chk = "key"  -> Finish(KeyMissingResponse(variant)) /\ UNCHANGED calls
                     [] OTHER ->
                          /\ calls' = <<Prompt(variant, 1, body.text.str, t.name, NoLocals)>>
                          /\ inflight' = {1}
                          /\ pc' = "await"
                          /\ UNCHANGED responses

\* the fetch of the k-th call settles with r: callGemini up to its await on
\* the body of the response, or its throw and the catch block of the handler
Settle(r) ==
    /\ pc = "await"
    /\ \E k \in inflight :
         /\ r \in Replies(k)
         /\ replies' = Append(replies, r)
         /\ UNCHANGED <<variant, env, request, tone, outputs, locals, calls, svars>>
         /\ IF ThrowsBeforeBody(variant, r)
            THEN Finish(CatchResponse(variant, CallGeminiOf(variant, r).msg))
            ELSE /\ pc' = "body"
                 /\ inflight' = {}
                 /\ UNCHANGED responses

\* the body of the answer to the k-th call has been read: the rest of
\* callGemini and the handler's continuation up to the next fetch, the return
\* or the catch block
ReadBody ==
    /\ pc = "body"
    /\ UNCHANGED <<variant, env, request, tone, replies, svars>>
    /\ \E k \in {Len(replies)} : \E cg \in {CallGeminiOf(variant, replies[k])} :
         IF ~cg.ok
         THEN /\ Finish(CatchResponse(variant, cg.msg))
              /\ UNCHANGED <<outputs, locals, calls>>
         ELSE \E a \in {After(variant, k, cg.out, locals)} :
                /\ outputs' = Append(outputs, cg.out)
                /\ IF a.throw
                   THEN /\ Finish(CatchResponse(variant, a.msg))
                        /\ UNCHANGED <<locals, calls>>
                   ELSE /\ locals' = a.locals
                        /\ IF k = Len(Pipeline(variant))
                           THEN Finish(ResultResponse(a.locals)) /\ UNCHANGED calls
                           ELSE /\ calls' = Append(calls,
                                      Prompt(variant, k + 1, request.text.str, tone, a.locals))
                                /\ inflight' = {k + 1}
                                /\ pc' = "await"
                                /\ UNCHANGED responses

----------------------------------------------------------------------------
(* Part II: server.js                                                      *)

IPs == {"ip1", "ip2"}

\* rateLimit({ ..., message: ... })
LimiterMessage == "Too many requests from this IP, please try again later."

\* bounds of the model: at most MaxPending model calls are outstanding and
\* every client sends at most MaxPosts requests, of any text
MaxPending == 1
MaxPosts == 2

\* validateInput measuring the untrimmed text
validateInput_NoTrim(text) ==
    IF ~TruthyText(text) \/ text.type # "string"
    THEN "Text must be a non-empty string."
    ELSE IF Len(text.str) < 10
    THEN "Text must be at least 10 characters long."
    ELSE ""

\* function validateInput(text): the error message, "" for null
validateInput(text) ==
    IF ~TruthyText(text) \/ text.type # "string"
    THEN "Text must be a non-empty string."
    ELSE IF Len(Trim(text.str)) < 10
    THEN "Text must be at least 10 characters long."
    ELSE ""

\* const sanitizedText = text.trim()  -- what the prompt embeds
sanitizedText(text) == Trim(text.str)

Exchange(route, ip, limited, text, status, error, n, prompt, out) ==
    [route |-> route, ip |-> ip, limited |-> limited, text |-> text,
     status |-> status, error |-> error, modelCalls |-> n, prompt |-> prompt,
     paraphrased |-> out]

NoExchange == Exchange("none", "", FALSE, Undefined, 0, "", 0, <<>>, <<>>)

Pad(l, n, r) == Rep(" ", l) \o Rep("a", n) \o Rep(" ", r)

\* the text field of the JSON objects posted to /paraphrase
PostTexts ==
    { Undefined, Number(5), Str(<<>>),
      Str(Rep(" ", 6) \o <<"\t", "\n", "\r", "\f", "U+00A0", "U+FEFF">>),
      Str(Pad(2, 9, 1)), Str(Pad(1, 10, 2)), Str(Pad(0, 11, 0)) }

\* what model.generateContent settles with: a text, or a rejection
ModelResults ==
    { [ok |-> TRUE, text |-> <<" ", "p", "\n">>], [ok |-> FALSE, text |-> <<>>] }

RemoveAt(s, i) == SubSeq(s, 1, i - 1) \o SubSeq(s, i + 1, Len(s))

\* POST /paraphrase from ip with a JSON object as body.  The limiter of
\* line 31 runs first: it passes the request on to the route (pass) or
\* answers it itself, with the message of line 27 and a status that
\* server.js does not set.  Then the route up to its await.
Post(ip, text, pass) ==
    /\ sent' = [sent EXCEPT ![ip] = @ + 1]
    /\ UNCHANGED hvars
    /\ IF ~pass
       THEN /\ last' = Exchange("paraphrase", ip, TRUE, text, 0, LimiterMessage,
                                0, <<>>, <<>>)
            /\ UNCHANGED pending
       ELSE LET validationError == validateInput(text)
            IN  IF validationError # ""
                THEN /\ last' = Exchange("paraphrase", ip, FALSE, text, 400,
                                         validationError, 0, <<>>, <<>>)
                     /\ UNCHANGED pending
                ELSE /\ Len(pending) < MaxPending
                     /\ pending' = Append(pending,
                            Exchange("paraphrase", ip, FALSE, text, 0, "", 1,
                                     sanitizedText(text), <<>>))
                     /\ UNCHANGED last

\* model.generateContent of the i-th outstanding invocation settles
ModelSettle(i, r) ==
    /\ i \in 1..Len(pending)
    /\ pending' = RemoveAt(pending, i)
    /\ last' = IF r.ok
               THEN [pending[i] EXCEPT !.status = 200, !.paraphrased = Trim(r.text)]
               ELSE [pending[i] EXCEPT !.status = 500,
                        !.error = "An error occurred while paraphrasing the text."]
    /\ UNCHANGED <<sent, hvars>>

\* GET /health: not under the limiter's path
Health(ip) ==
    /\ last' = Exchange("health", ip, FALSE, Undefined, 200, "", 0, <<>>, <<>>)
    /\ UNCHANGED <<pending, sent, hvars>>

ServerIdle ==
    /\ pending = <<>>
    /\ last = NoExchange
    /\ sent = [ip \in IPs |-> 0]

----------------------------------------------------------------------------
(* Part I: the specification                                               *)

Init ==
    /\ variant \in Variants
    /\ env \in Envs
    /\ pc = "start"
    /\ request = NoRequest
    /\ tone = ""
    /\ locals = NoLocals
    /\ calls = <<>>
    /\ inflight = {}
    /\ outputs = <<>>
    /\ replies = <<>>
    /\ responses = <<>>
    /\ ServerIdle

Next ==
    \/ \E body \in Bodies : Start(body)
    \/ \E r \in AllReplies : Settle(r)
    \/ ReadBody

Spec == Init /\ [][Next]_vars

\* every fetch settles, it resolves or rejects, and so does the reading of
\* every body
FairSpec == Spec /\ WF_vars(Next)

----------------------------------------------------------------------------
(* Part II: the specification                                              *)

HandlerIdle ==
    /\ variant = "paraphrase_1"
    /\ env = [GEMINI_API_KEY |-> "key"]
    /\ pc = "start"
    /\ request = NoRequest
    /\ tone = ""
    /\ locals = NoLocals
    /\ calls = <<>>
    /\ inflight = {}
    /\ outputs = <<>>
    /\ replies = <<>>
    /\ responses = <<>>

ServerInit == ServerIdle /\ HandlerIdle

\* a few requests per client, of every kind of text
ServerNext ==
    \/ \E ip \in IPs, text \in PostTexts, pass \in BOOLEAN :
         sent[ip] < MaxPosts /\ Post(ip, text, pass)
    \/ \E i \in 1..MaxPending, r \in ModelResults : ModelSettle(i, r)
    \/ \E ip \in IPs : Health(ip)

ServerSpec == ServerInit /\ [][ServerNext]_vars

----------------------------------------------------------------------------
(* Part I: properties                                                      *)

Answered == pc = "done" /\ Len(responses) = 1
Status == responses[1].status

\* the request of this invocation passes every check of the claim
RequestPasses ==
    /\ request.kind = "object"
    /\ request.text.type = "string"
    /\ Len(request.text.str) >= 1
    /\ Len(request.text.str) <= 2000
    /\ tone \in {"standard", "simple", "professional", "academic"}
    /\ env.GEMINI_API_KEY # ""

\* C1: validation comes before any external call.  Whenever a call to the
\* external API has been issued, the request's text is a non-empty string of
\* at most 2000 characters, the tone is one of the four allowed tones and the
\* API key is set; a request that fails a check, or whose body cannot be
\* parsed, is answered without any external call.
C1_ValidationBeforeCalls ==
    /\ calls # <<>> => RequestPasses
    /\ (pc # "start" /\ ~RequestPasses) => (Answered /\ calls = <<>> /\ replies = <<>>)

\* a call has been issued for a text of exactly 2000 characters
C1_Witness ==
    /\ calls # <<>>
    /\ Len(request.text.str) = 2000
    /\ tone = "academic"

\* the number of external calls of a successful request, per handler
NumCalls ==
    CASE variant = "part_000" -> 4
      [] variant = "paraphrase_1" -> 5
      [] variant = "part_001" -> 6
      [] OTHER -> 4

StageLabels == <<"stage-1", "stage-2", "stage-3", "stage-4", "stage-5", "stage-6">>

ReturnedFine(r) == ~r.neterr /\ r.status = 200 /\ r.json

\* C2: the external calls of one request are strictly sequential and follow
\* the fixed pipeline.  At most one call is in flight; the calls issued so far
\* are stage 1, 2, ..., k in that order with none skipped; every call but the
\* last one issued has already returned successfully; and a request answered
\* with status 200 has issued exactly N calls, all of which returned
\* (N = 4 in part_000, 5 in the first handler of paraphrase.js, 6 in part_001).
C2_SequentialPipeline ==
    /\ Cardinality(inflight) <= 1
    /\ inflight \subseteq {Len(calls)}
    /\ Len(calls) <= NumCalls
    /\ \A i \in 1..Len(calls) :
         /\ calls[i].stage = i
         /\ FullErrorHandling(variant) => calls[i].label = StageLabels[i]
    /\ Len(replies) = Len(calls) - Cardinality(inflight)
    /\ \A i \in 1..(Len(calls) - 1) : ReturnedFine(replies[i])
    /\ (Answered /\ Status = 200) =>
         /\ Len(calls) = NumCalls
         /\ Len(outputs) = NumCalls
         /\ \A i \in 1..NumCalls : ReturnedFine(replies[i])

\* the six-stage handler has answered 200
C2_Witness ==
    /\ variant = "part_001"
    /\ Answered /\ Status = 200
    /\ Len(calls) = 6

\* C3: each refinement stage consumes the prior stage's output.  The first
\* refinement stage (the third call) embeds exactly one text, one of the
\* variations that were offered to the selection stage; every later stage
\* embeds exactly the output of the call before it, as the template literal
\* of its prompt writes it; and the result field of a 200 response is the
\* output of the last call.
C3_ChainedOutputs ==
    /\ Len(calls) >= 3 =>
         /\ Len(calls[3].parts) = 1
         /\ \E j \in 0..2 :
              calls[3].parts[1] = calls[2].parts[Len(calls[2].parts) - j]
    /\ \A i \in 4..Len(calls) : calls[i].parts = <<ToStr(outputs[i - 1])>>
    /\ (Answered /\ Status = 200) =>
         responses[1].body.result = outputs[Len(outputs)]

\* a five-call request answered 200 whose last three outputs are not all equal
C3_Witness ==
    /\ variant = "paraphrase_1"
    /\ Answered /\ Status = 200
    /\ outputs[3] # outputs[4]
    /\ outputs[4] # outputs[5]
    /\ responses[1].body.result = Str(<<"y">>)

\* C4: the tone parameter is optional in every handler variant.  A request
\* with valid text (and the API key set) whose tone is absent or falsy is not
\* rejected: it enters the pipeline with the tone "standard".
C4_ToneOptional ==
    ( /\ pc # "start"
      /\ request.kind = "object"
      /\ ~InvalidText(request.text)
      /\ ~TruthyTone(request.tone)
      /\ env.GEMINI_API_KEY # "" )
    => ( /\ calls # <<>>
         /\ tone = "standard"
         /\ \A i \in 1..Len(responses) : responses[i].status # 400 )

\* callGemini is still waiting for the body of the answer to the k-th call
BodyPending(k) == pc = "body" /\ k = Len(replies)

\* the external API's answer to the k-th call is one of the failures the
\* claim lists
EmptyReply(r) == ~r.hasText \/ (r.text.type = "string" /\ Trim(r.text.str) = <<>>)
StageFailed(k) ==
    LET r == replies[k]
    IN  \/ r.neterr
        \/ ~ResOk(r.status)
        \/ ~r.json
        \/ EmptyReply(r)
        \/ (k = 1 /\ Len(locals.variations) < 3)

\* C5: the pipeline is retry-free and fail-fast.  No stage is called twice,
\* and once the answer to stage k is a failure (network error, non-OK status,
\* unparseable or empty reply, fewer than three variations) stage k was the
\* last call issued and, as soon as the handler has the answer, the request
\* has ended with status 500.
C5_FailFast ==
    /\ \A i, j \in 1..Len(calls) : calls[i].stage = calls[j].stage => i = j
    /\ \A k \in 1..Len(replies) :
         (StageFailed(k) /\ ~BodyPending(k)) =>
             (Len(calls) = k /\ Answered /\ Status = 500)

Details == responses[1].body.details

\* C6: status-code branching of callGemini in the handlers with full error
\* handling.  When the external API answers a stage with HTTP 401 or 403 the
\* request ends with status 500 and details "Gemini API key is invalid or
\* unauthorized"; with 429 the details are "Gemini rate limit exceeded"; with
\* any other non-OK status s they are "Gemini API error (s)".
C6_StatusBranching ==
    (FullErrorHandling(variant) /\ replies # <<>> /\ ~BodyPending(Len(replies))) =>
        LET r == replies[Len(replies)]
        IN  (~r.neterr /\ ~ResOk(r.status)) =>
              /\ Answered /\ Status = 500
              /\ r.status \in {401, 403} =>
                   Details = "Gemini API key is invalid or unauthorized"
              /\ r.status = 429 => Details = "Gemini rate limit exceeded"
              /\ r.status \notin {401, 403, 429} =>
                   Details = "Gemini API error (" \o ToString(r.status) \o ")"

EnvelopeOK ==
    /\ Len(responses) <= 1
    /\ pc = "done" <=> Len(responses) = 1
    /\ \A i \in 1..Len(responses) :
         LET resp == responses[i]
         IN  /\ resp.status \in {200, 400, 500}
             /\ resp.status = 200 <=> "result" \in DOMAIN resp.body
             /\ resp.status # 200 <=> "error" \in DOMAIN resp.body
             /\ resp.headers.ContentType = "application/json"
             /\ resp.headers.AccessControlAllowOrigin = "*"

\* C7: the JSON envelope.  Every invocation ends with exactly one Response
\* (none before the handler is done, one from then on, and the handler does
\* get done); the status is 200, 400 or 500; the body has a result field and
\* no error field exactly when the status is 200, and an error field and no
\* result field otherwise; every response carries Content-Type
\* application/json and Access-Control-Allow-Origin *.
C7_JsonEnvelope == []EnvelopeOK /\ <>(pc = "done")

\* a 200, a 400 and a 500 response are all possible; the witness is the 500
\* that the catch block builds after a failed call
C7_Witness ==
    /\ Answered /\ Status = 500
    /\ replies # <<>>
    /\ "error" \in DOMAIN responses[1].body

\* C8: the text length limit as the error message states it.  Every text of
\* 2000 characters or more is rejected with status 400 and no external call.
C8_Under2000 ==
    ( /\ pc # "start"
      /\ request.kind = "object"
      /\ request.text.type = "string"
      /\ Len(request.text.str) >= 2000 )
    => (Answered /\ Status = 400 /\ calls = <<>>)

----------------------------------------------------------------------------
(* Part II: properties                                                     *)

\* one exchange that got past the limiter obeys the validation contract
Validated(e) ==
    (e.route = "paraphrase" /\ ~e.limited) =>
        IF e.text.type # "string" \/ e.text.str = <<>>
        THEN /\ e.status = 400
             /\ e.error = "Text must be a non-empty string."
             /\ e.modelCalls = 0
        ELSE IF Len(Trim(e.text.str)) < 10
        THEN /\ e.status = 400
             /\ e.error = "Text must be at least 10 characters long."
             /\ e.modelCalls = 0
        ELSE /\ e.modelCalls = 1
             /\ e.prompt = Trim(e.text.str)
             /\ e.status \in {0, 200, 500}

\* C10: POST /paraphrase calls the model exactly once if and only if text is
\* a string whose trimmed length is at least 10.  A missing, empty or
\* non-string text gets status 400 with 'Text must be a non-empty string.', a
\* string whose trimmed length is under 10 gets status 400 with 'Text must be
\* at least 10 characters long.', in both cases without a model call; the
\* prompt embeds the trimmed text.  (Stated of the requests that get past the
\* rate limiter.)
C10_ServerValidation ==
    /\ Validated(last)
    /\ \A i \in 1..Len(pending) : Validated(pending[i])

\* a padded text of exactly ten characters after trimming was paraphrased
C10_Witness ==
    /\ last.route = "paraphrase"
    /\ last.status = 200
    /\ Len(last.text.str) = 13
    /\ Len(last.prompt) = 10
    /\ last.modelCalls = 1

----------------------------------------------------------------------------
(* Claims about the selection stage, the variation parsing and the         *)
(* precedence of the validation                                            *)

\* the variations a handler makes of the output of its first stage
VariationsOf(v, out) ==
    IF v = "paraphrase_2" THEN ParseNumbered(out) ELSE ParseVariations(out)

Numbers == {<<"1">>, <<"2">>, <<"3">>}

\* C11: the text passed to the first refinement stage is always one of the
\* first three variations of stage 1; when the stage-2 reply, trimmed, is
\* exactly "1", "2" or "3" the variation with that number is selected; for
\* every other reply part_000, part_001 and the first and third handlers of
\* paraphrase.js select the first variation and go on to the refinement.
\* The stage-2 reply is the text callGemini returned for the second call.
C11_Selection ==
    (Len(outputs) >= 2 /\ outputs[2].type = "string") =>
        LET vs     == VariationsOf(variant, outputs[1].str)
            choice == Trim(outputs[2].str)
        IN  /\ Len(calls) >= 3 => calls[3].parts[1] \in {vs[1], vs[2], vs[3]}
            /\ choice \in Numbers =>
                   /\ Len(calls) >= 3
                   /\ calls[3].parts = <<vs[DigitValue(choice[1])]>>
            /\ (choice \notin Numbers /\ variant # "paraphrase_2") =>
                   /\ Len(calls) >= 3
                   /\ calls[3].parts = <<vs[1]>>

\* part_001 was answered "2." by its selection stage and went on to refine
\* the first of four variations
C11_Witness ==
    /\ variant = "part_001"
    /\ Len(outputs) >= 2
    /\ Len(ParseVariations(outputs[1].str)) = 4
    /\ outputs[2] = Str(<<"2", ".">>)
    /\ Len(calls) >= 3
    /\ calls[3].parts = << <<"a">> >>


\* the stage-1 output split on "|||", each part trimmed, empty parts dropped
NonEmptyParts(out) == FilterNonEmpty(MapTrim(Split(out, <<"|", "|", "|">>)))

\* the request ended with status 500 after exactly one external call
FailedAfterOneCall == Answered /\ Status = 500 /\ Len(calls) = 1

HasDetails(message) ==
    /\ "details" \in DOMAIN responses[1].body
    /\ responses[1].body.details = message

\* the selection stage was called and offered exactly the given variations
Offered(vs) == Len(calls) >= 2 /\ calls[2].parts = vs

\* what the claim says of the "|||" parsing, for one invocation
SplitParsing ==
    LET parts == IF outputs[1].type = "string" THEN NonEmptyParts(outputs[1].str)
                 ELSE <<>>
    IN  IF Len(parts) < 3
        THEN FailedAfterOneCall /\ HasDetails("Gemini failed to generate 3 variations")
        ELSE Offered(SubSeq(parts, 1, 3))

\* C12 as stated, of every handler: the stage-1 output is split on "|||",
\* each part trimmed and empty parts dropped; with fewer than three non-empty
\* parts the request ends with status 500 and details "Gemini failed to
\* generate 3 variations" after exactly one external call; with three or more
\* the pipeline continues and only the first three are offered to the
\* selection stage.
C12_SplitInEveryHandler == Len(outputs) >= 1 => SplitParsing

\* C12, amended: the statement holds of part_000, part_001 and the first
\* handler of paraphrase.js.  The third handler of paraphrase.js parses the
\* same way but its status 500 response has no details, only the error
\* "Internal server error", and it answers a stage-1 output that is no
\* string the same way.  The second handler takes the first lines that
\* start with "1.", "2." and "3.", the number and the white space after it
\* removed; when one of the three is missing or empty the request ends with
\* status 500 and error "Internal server error" after exactly one external
\* call, otherwise the three are offered to the selection stage together with
\* the input text.
C12_VariationParsing ==
    Len(outputs) >= 1 =>
        CASE FullErrorHandling(variant) -> SplitParsing
          [] variant = "paraphrase_3" ->
                LET parts == IF outputs[1].type = "string"
                             THEN NonEmptyParts(outputs[1].str) ELSE <<>>
                IN  IF Len(parts) < 3
                    THEN /\ FailedAfterOneCall
                         /\ responses[1].body = [error |-> "Internal server error"]
                    ELSE Offered(SubSeq(parts, 1, 3))
          [] variant = "paraphrase_2" ->
                LET vs == ParseNumbered(outputs[1].str)
                IN  IF \E i \in 1..3 : vs[i] = <<>>
                    THEN /\ FailedAfterOneCall
                         /\ responses[1].body = [error |-> "Internal server error"]
                    ELSE Offered(<<request.text.str>> \o vs)

\* part_000 got two rewrites with a blank one between them and gave up after
\* the one call
C12_Witness ==
    /\ variant = "part_000"
    /\ Len(outputs) = 1
    /\ Len(Split(outputs[1].str, <<"|", "|", "|">>)) = 3
    /\ Len(NonEmptyParts(outputs[1].str)) = 2
    /\ FailedAfterOneCall
    /\ HasDetails("Gemini failed to generate 3 variations")


\* the three checks of the claim, on the request of this invocation
TextInvalid ==
    ~(/\ request.text.type = "string"
      /\ Len(request.text.str) >= 1
      /\ Len(request.text.str) <= 2000)
ToneInvalid == tone \notin {"standard", "simple", "professional", "academic"}
KeyIsMissing == env.GEMINI_API_KEY = ""

\* the response is status s with the one field error, and no call was made
RejectedWith(s, message) ==
    /\ Status = s
    /\ responses[1].body = [error |-> message]
    /\ calls = <<>>

\* the first failing check, in the order text, tone, key, decides the
\* response; textError and toneError are the two status 400 messages
Precedence(textError, toneError) ==
    (Answered /\ request.kind = "object") =>
        /\ TextInvalid => RejectedWith(400, textError)
        /\ (~TextInvalid /\ ToneInvalid) => RejectedWith(400, toneError)
        /\ (~TextInvalid /\ ~ToneInvalid /\ KeyIsMissing) => (Status = 500 /\ calls = <<>>)
        /\ (Status = 500 /\ calls = <<>>) => (~TextInvalid /\ ~ToneInvalid /\ KeyIsMissing)

\* C13 as stated, of every handler: the checks run in the order text, tone,
\* API key and the first failing one decides the response: invalid text gets
\* status 400 "Invalid input text" even if the tone is invalid or the key is
\* missing, an invalid tone with valid text gets status 400 "Invalid tone"
\* even if the key is missing, and the missing-key status 500 is returned
\* only when text and tone are both valid.
C13_SameMessages == Precedence("Invalid input text", "Invalid tone")

\* C13, amended: the same precedence in every handler, with the messages
\* "Invalid input text" and "Invalid tone" in part_000, part_001 and the
\* first and third handlers of paraphrase.js, and the messages "Invalid
\* input: text must be a non-empty string under 2000 characters" and "Invalid
\* tone: must be one of standard, simple, professional, academic" in the
\* second handler of paraphrase.js.
C13_ValidationPrecedence ==
    IF variant = "paraphrase_2"
    THEN Precedence("Invalid input: text must be a non-empty string under 2000 characters",
                    "Invalid tone: must be one of standard, simple, professional, academic")
    ELSE Precedence("Invalid input text", "Invalid tone")

\* part_001 without an API key answered a text of 2001 characters with the
\* tone "casual" by status 400 "Invalid input text"
C13_Witness ==
    /\ variant = "part_001"
    /\ Answered
    /\ request.kind = "object"
    /\ request.text.type = "string"
    /\ Len(request.text.str) = 2001
    /\ request.tone.name = "casual"
    /\ KeyIsMissing
    /\ RejectedWith(400, "Invalid input text")

====
